---- MODULE Spec2Model ----
(***************************************************************************)
(* Complex arithmetic of Mathematics.NET's OpenCL kernels                  *)
(* (GPU/OpenCL/Kernels/complex.h, complex.c).                              *)
(*                                                                         *)
(* A double is modelled by its IEEE-754 value: a signed zero, a signed     *)
(* infinity, NaN, or a finite nonzero number kept as sign s and magnitude  *)
(* n/d in lowest terms.  NaN is one value: IEEE-754 gives the sign and the *)
(* payload of a NaN no meaning, and a build is free in the ones it         *)
(* produces.  Finite arithmetic is exact inside [-MaxFinite, MaxFinite]; a *)
(* result whose magnitude exceeds MaxFinite overflows to the infinity of   *)
(* its sign.  Rounding and underflow inside the range are not modelled.    *)
(***************************************************************************)
EXTENDS Integers, Sequences, FiniteSets, TLC

VARIABLES pc, fn, args, result, tmp

vars == <<pc, fn, args, result, tmp>>

\* Largest finite magnitude of the model's double (stands for DBL_MAX).
MaxFinite == 8

\* Number of execution contexts (threads, work-items) calling the library.
NumCtx == 2

\* Factor from which two magnitudes count as orders of magnitude apart.
Ratio == 4

Ctx == 1..NumCtx

-----------------------------------------------------------------------------
(* The double type                                                         *)

RECURSIVE GCD(_, _)
GCD(a, b) == IF b = 0 THEN a ELSE GCD(b, a % b)

Zero(s) == [k |-> "zero", s |-> s, n |-> 0, d |-> 1]
Inf(s) == [k |-> "inf", s |-> s, n |-> 1, d |-> 0]
NaN == [k |-> "nan", s |-> 0, n |-> 0, d |-> 0]

\* The double of sign s and exact magnitude n/d (d > 0): zero, overflow to
\* infinity beyond MaxFinite, else the number in lowest terms.
Mk(s, n, d) ==
    IF n = 0 THEN Zero(s)
    ELSE IF n > MaxFinite * d THEN Inf(s)
    ELSE LET g == GCD(n, d) IN [k |-> "fin", s |-> s, n |-> n \div g, d |-> d \div g]

\* The integer literal i converted to double.
Lit(i) == IF i < 0 THEN Mk(1, -i, 1) ELSE Mk(0, i, 1)

\* The macros INFINITY and NAN of the C library.
INFINITY == Inf(0)
NAN == NaN

IsNaN(a) == a.k = "nan"
IsInf(a) == a.k = "inf"
IsZero(a) == a.k = "zero"
IsFinite(a) == a.k \in {"zero", "fin"}
\* A value a libm function returns that is not a rational number of the model.
IsOpaque(a) == a.k \in {"sqrt", "pi", "atan2", "cos", "sin", "prod"}

\* Signed numerator of a non-NaN value (an infinity is +-1/0).
SN(a) == IF a.s = 1 THEN -a.n ELSE a.n

Xor(s, t) == IF s = t THEN 0 ELSE 1

\* Unary minus: flips the sign bit.
FNeg(a) == IF IsNaN(a) THEN a ELSE [a EXCEPT !.s = 1 - a.s]

\* fabs: clears the sign bit.
fabs(a) == IF IsNaN(a) THEN a ELSE [a EXCEPT !.s = 0]

\* a == b of C: false when either is NaN, -0 equals +0.
FEq(a, b) ==
    IF IsNaN(a) \/ IsNaN(b) THEN FALSE
    ELSE IF IsInf(a) \/ IsInf(b) THEN IsInf(a) /\ IsInf(b) /\ a.s = b.s
    ELSE SN(a) * b.d = SN(b) * a.d

\* a < b of C: false when either is NaN.
FLt(a, b) ==
    IF IsNaN(a) \/ IsNaN(b) THEN FALSE
    ELSE IF IsInf(a) /\ IsInf(b) THEN a.s = 1 /\ b.s = 0
    ELSE SN(a) * b.d < SN(b) * a.d

\* a + b.
FAdd(a, b) ==
    IF IsNaN(a) THEN a
    ELSE IF IsNaN(b) THEN b
    ELSE IF IsInf(a) /\ IsInf(b) THEN (IF a.s = b.s THEN a ELSE NaN)
    ELSE IF IsInf(a) THEN a
    ELSE IF IsInf(b) THEN b
    ELSE IF IsZero(a) /\ IsZero(b) THEN Zero(IF a.s = b.s THEN a.s ELSE 0)
    ELSE LET num == SN(a) * b.d + SN(b) * a.d
         IN  IF num = 0 THEN Zero(0)
             ELSE IF num < 0 THEN Mk(1, -num, a.d * b.d)
             ELSE Mk(0, num, a.d * b.d)

\* a - b.
FSub(a, b) ==
    IF IsNaN(a) THEN a
    ELSE IF IsNaN(b) THEN b
    ELSE FAdd(a, FNeg(b))

\* a * b.  A product with a libm value that the model keeps symbolic stays
\* symbolic.
FMul(a, b) ==
    IF IsNaN(a) THEN a
    ELSE IF IsNaN(b) THEN b
    ELSE IF IsOpaque(a) \/ IsOpaque(b)
         THEN [k |-> "prod", s |-> 0, n |-> 0, d |-> 0, x |-> a, y |-> b]
    ELSE IF (IsInf(a) /\ IsZero(b)) \/ (IsZero(a) /\ IsInf(b)) THEN NaN
    ELSE IF IsInf(a) \/ IsInf(b) THEN Inf(Xor(a.s, b.s))
    ELSE Mk(Xor(a.s, b.s), a.n * b.n, a.d * b.d)

\* a / b.
FDiv(a, b) ==
    IF IsNaN(a) THEN a
    ELSE IF IsNaN(b) THEN b
    ELSE IF (IsInf(a) /\ IsInf(b)) \/ (IsZero(a) /\ IsZero(b)) THEN NaN
    ELSE IF IsInf(a) \/ IsZero(b) THEN Inf(Xor(a.s, b.s))
    ELSE IF IsInf(b) THEN Zero(Xor(a.s, b.s))
    ELSE Mk(Xor(a.s, b.s), a.n * b.d, a.d * b.n)

-----------------------------------------------------------------------------
(* The libm primitives the library delegates to.  A result that is not a   *)
(* rational number is kept as a symbolic value naming the function and its *)
(* argument; the cases C11 Annex F fixes are computed.                     *)

\* Integer square root.
ISqrt(m) == CHOOSE r \in 0..m : r * r <= m /\ m < (r + 1) * (r + 1)

\* hypot(x, y): sqrt(x*x + y*y) without intermediate overflow.
hypot(x, y) ==
    IF IsInf(x) \/ IsInf(y) THEN Inf(0)
    ELSE IF IsNaN(x) THEN x
    ELSE IF IsNaN(y) THEN y
    ELSE LET den == x.d * y.d
             num == x.n * x.n * y.d * y.d + y.n * y.n * x.d * x.d
             r == ISqrt(num)
         IN  IF num > MaxFinite * MaxFinite * den * den THEN Inf(0)
             ELSE IF r * r = num THEN Mk(0, r, den)
             ELSE LET g == GCD(num, den * den)
                  IN  [k |-> "sqrt", s |-> 0, n |-> num \div g, d |-> (den * den) \div g]

\* The double nearest to +-(n/d)*pi.
Pi(s, n, d) == [k |-> "pi", s |-> s, n |-> n, d |-> d]

\* atan2(y, x): the four-quadrant arctangent.
atan2(y, x) ==
    IF IsNaN(y) THEN y
    ELSE IF IsNaN(x) THEN x
    ELSE IF IsZero(y) THEN (IF x.s = 1 THEN Pi(y.s, 1, 1) ELSE Zero(y.s))
    ELSE IF IsZero(x) THEN Pi(y.s, 1, 2)
    ELSE IF IsInf(y) THEN (IF IsInf(x) THEN (IF x.s = 1 THEN Pi(y.s, 3, 4) ELSE Pi(y.s, 1, 4))
                           ELSE Pi(y.s, 1, 2))
    ELSE IF IsInf(x) THEN (IF x.s = 1 THEN Pi(y.s, 1, 1) ELSE Zero(y.s))
    ELSE IF x.n * y.d = y.n * x.d THEN (IF x.s = 1 THEN Pi(y.s, 3, 4) ELSE Pi(y.s, 1, 4))
    ELSE [k |-> "atan2", s |-> y.s, n |-> 0, d |-> 0, y |-> y, x |-> x]

\* cos(x).
cos(x) ==
    IF IsNaN(x) THEN x
    ELSE IF IsInf(x) THEN NaN
    ELSE IF IsZero(x) THEN Lit(1)
    ELSE [k |-> "cos", s |-> x.s, n |-> x.n, d |-> x.d]

\* sin(x).
sin(x) ==
    IF IsNaN(x) THEN x
    ELSE IF IsInf(x) THEN NaN
    ELSE IF IsZero(x) THEN x
    ELSE [k |-> "sin", s |-> x.s, n |-> x.n, d |-> x.d]

-----------------------------------------------------------------------------
(* complex.h                                                               *)

\* typedef struct { double re; double im; } complex;
complex(re, im) == [re |-> re, im |-> im]

COMP_INFINITY == complex(INFINITY, INFINITY)
COMP_NAN == complex(NAN, NAN)

-----------------------------------------------------------------------------
(* complex.c                                                               *)

comp_add(z, w) == complex(FAdd(z.re, w.re), FAdd(z.im, w.im))

\* comp_conjugate negating the wrong field.
comp_conjugate_wrong_field(z) == complex(z.re, FNeg(z.re))

comp_conjugate(z) == complex(z.re, FNeg(z.im))

\* The guard of comp_div with <= for <.
div_branch_nonstrict(w) == IF ~FLt(fabs(w.re), fabs(w.im)) THEN 1 ELSE 2

\* The guard of comp_div: 1 for the branch of line 29, 2 for that of line 33.
div_branch(w) == IF FLt(fabs(w.im), fabs(w.re)) THEN 1 ELSE 2

\* double u of the branch taken.
div_u(w) == IF div_branch(w) = 1 THEN FDiv(w.im, w.re) ELSE FDiv(w.re, w.im)

\* The denominator of the textbook formula, c*c + d*d.
div_den_textbook(w) == FAdd(FMul(w.re, w.re), FMul(w.im, w.im))

\* The denominator of the branch taken: c + d * u, or d + c * u.
div_den(w) ==
    IF div_branch(w) = 1 THEN FAdd(w.re, FMul(w.im, div_u(w)))
    ELSE FAdd(w.im, FMul(w.re, div_u(w)))

\* The numerator of result.re: a + b * u, or b + a * u.
div_nre(z, w) ==
    IF div_branch(w) = 1 THEN FAdd(z.re, FMul(z.im, div_u(w)))
    ELSE FAdd(z.im, FMul(z.re, div_u(w)))

\* The numerator of result.im with the operands of the subtraction of the
\* second branch exchanged.
div_nim_exchanged(z, w) ==
    IF div_branch(w) = 1 THEN FSub(z.im, FMul(z.re, div_u(w)))
    ELSE FSub(z.re, FMul(z.im, div_u(w)))

\* The numerator of result.im: b - a * u, or b * u - a.
div_nim(z, w) ==
    IF div_branch(w) = 1 THEN FSub(z.im, FMul(z.re, div_u(w)))
    ELSE FSub(FMul(z.im, div_u(w)), z.re)

\* comp_div with a guard that returns the Infinity sentinel for a zero divisor.
comp_div_guarded(z, w) ==
    IF FEq(w.re, Lit(0)) /\ FEq(w.im, Lit(0)) THEN COMP_INFINITY
    ELSE complex(FDiv(div_nre(z, w), div_den(w)), FDiv(div_nim(z, w), div_den(w)))

comp_div(z, w) ==
    complex(FDiv(div_nre(z, w), div_den(w)), FDiv(div_nim(z, w), div_den(w)))

comp_from_polar(magnitude, phase) ==
    complex(FMul(magnitude, cos(phase)), FMul(magnitude, sin(phase)))

comp_magnitude(z) == hypot(z.re, z.im)

\* comp_mul with a sign slip in the imaginary part.
comp_mul_sign_slip(z, w) ==
    complex(FSub(FMul(z.re, w.re), FMul(z.im, w.im)),
            FSub(FMul(z.re, w.im), FMul(w.re, z.im)))

comp_mul(z, w) ==
    complex(FSub(FMul(z.re, w.re), FMul(z.im, w.im)),
            FAdd(FMul(z.re, w.im), FMul(w.re, z.im)))

comp_phase(z) == atan2(z.im, z.re)

\* An expression statement "e;": e is evaluated, its value is discarded and
\* control goes on to the next statement.
ExprStmt(e, next) == next

\* double u of comp_reciprocate.
recip_u(z) == FAdd(FMul(z.re, z.re), FMul(z.im, z.im))

\* Lines 69-74 of comp_reciprocate without the negation of z.im.
recip_tail_no_negation(z) == complex(FDiv(z.re, recip_u(z)), FDiv(z.im, recip_u(z)))

\* Lines 69-74 of comp_reciprocate.
recip_tail(z) == complex(FDiv(z.re, recip_u(z)), FDiv(FNeg(z.im), recip_u(z)))

\* The body of the if of line 65 is the statement "COMP_INFINITY;" (the
\* macro expands to a compound literal and a semicolon): it returns nothing.
comp_reciprocate(z) ==
    IF FEq(z.re, Lit(0)) /\ FEq(z.im, Lit(0))
    THEN ExprStmt(COMP_INFINITY, recip_tail(z))
    ELSE recip_tail(z)

comp_sub(z, w) == complex(FSub(z.re, w.re), FSub(z.im, w.im))

-----------------------------------------------------------------------------
(* Calls of the library.  Each context p calls one function at a time: the *)
(* call copies the operands into the callee's parameters args[p], the      *)
(* function body runs as one step on its own parameters and locals, and    *)
(* result[p] is the value it returns.  tmp[p] keeps the locals of the body *)
(* (the branch taken, u and the numerators and denominator of comp_div, u  *)
(* of comp_reciprocate).                                                   *)

\* No value: a result or a local that has not been assigned.
Undef == [k |-> "undef", s |-> 0, n |-> 0, d |-> 0]

NoTmp == [branch |-> 0, u |-> Undef, den |-> Undef, nre |-> Undef, nim |-> Undef]

\* The local "result" declared static: one storage shared by every call.
ResultSlotStatic(p) == 1

\* The storage of the local "result" of the call of context p: an automatic
\* variable of the function, one per call.
ResultSlot(p) == p

Binary == {"add", "sub", "mul", "div"}
Unary == {"conjugate", "reciprocate", "magnitude", "phase"}
Fns == Binary \cup Unary \cup {"from_polar"}

\* The doubles a sequential caller passes.
Doubles ==
    {NaN, Inf(0), Inf(1), Zero(0), Zero(1),
     Mk(0, 1, 2), Lit(1), Lit(-1), Lit(2), Lit(-3), Lit(MaxFinite \div 2), Lit(MaxFinite)}

\* The operands concurrent callers pass.
FewDoubles == {Zero(0), Lit(2)}
FewComplexes == {complex(Zero(0), Zero(0)), complex(Lit(1), Lit(2))}

Complexes(D) == {complex(re, im) : re \in D, im \in D}

\* The operand lists of function f: complex values from C, scalars from D.
Operands(f, C, D) ==
    IF f \in Binary THEN {<<z, w>> : z \in C, w \in C}
    ELSE IF f \in Unary THEN {<<z>> : z \in C}
    ELSE {<<m, ph>> : m \in D, ph \in D}

TypeOK ==
    /\ pc \in [Ctx -> {"idle", "called", "done"}]
    /\ fn \in [Ctx -> Fns \cup {"none"}]
    /\ DOMAIN args = Ctx /\ DOMAIN result = Ctx /\ DOMAIN tmp = Ctx

Init ==
    /\ pc = [p \in Ctx |-> "idle"]
    /\ fn = [p \in Ctx |-> "none"]
    /\ args = [p \in Ctx |-> <<>>]
    /\ result = [p \in Ctx |-> Undef]
    /\ tmp = [p \in Ctx |-> NoTmp]

\* Context p calls f on the operands a, passed by value.
Call(p, f, a) ==
    /\ pc[p] = "idle"
    /\ pc' = [pc EXCEPT ![p] = "called"]
    /\ fn' = [fn EXCEPT ![p] = f]
    /\ args' = [args EXCEPT ![p] = a]
    /\ tmp' = [tmp EXCEPT ![p] = NoTmp]
    /\ UNCHANGED result

\* The body of f runs in context p and returns r, with locals t.
Return(p, f, r, t) ==
    /\ pc[p] = "called"
    /\ fn[p] = f
    /\ result' = [result EXCEPT ![ResultSlot(p)] = r]
    /\ tmp' = [tmp EXCEPT ![p] = t]
    /\ pc' = [pc EXCEPT ![p] = "done"]
    /\ UNCHANGED <<fn, args>>

\* The caller of context p has taken the returned value: the call's frame
\* (parameters, locals, result) is gone.
Discard(p) ==
    /\ pc[p] = "done"
    /\ pc' = [pc EXCEPT ![p] = "idle"]
    /\ fn' = [fn EXCEPT ![p] = "none"]
    /\ args' = [args EXCEPT ![p] = <<>>]
    /\ result' = [result EXCEPT ![ResultSlot(p)] = Undef]
    /\ tmp' = [tmp EXCEPT ![p] = NoTmp]

Add(p) == Return(p, "add", comp_add(args[p][1], args[p][2]), NoTmp)

Sub(p) == Return(p, "sub", comp_sub(args[p][1], args[p][2]), NoTmp)

Mul(p) == Return(p, "mul", comp_mul(args[p][1], args[p][2]), NoTmp)

Conjugate(p) == Return(p, "conjugate", comp_conjugate(args[p][1]), NoTmp)

Div(p) ==
    Return(p, "div", comp_div(args[p][1], args[p][2]),
           [branch |-> div_branch(args[p][2]),
            u |-> div_u(args[p][2]),
            den |-> div_den(args[p][2]),
            nre |-> div_nre(args[p][1], args[p][2]),
            nim |-> div_nim(args[p][1], args[p][2])])

Reciprocate(p) ==
    Return(p, "reciprocate", comp_reciprocate(args[p][1]),
           [NoTmp EXCEPT !.u = recip_u(args[p][1])])

Magnitude(p) == Return(p, "magnitude", comp_magnitude(args[p][1]), NoTmp)

Phase(p) == Return(p, "phase", comp_phase(args[p][1]), NoTmp)

FromPolar(p) == Return(p, "from_polar", comp_from_polar(args[p][1], args[p][2]), NoTmp)

\* The body of whichever function context p has called.
Body(p) ==
    \/ Add(p)
    \/ Sub(p)
    \/ Mul(p)
    \/ Conjugate(p)
    \/ Div(p)
    \/ Reciprocate(p)
    \/ Magnitude(p)
    \/ Phase(p)
    \/ FromPolar(p)

\* One caller (context 1) calling the functions one after the other.
Next ==
    \/ /\ pc[1] = "idle"
       /\ \E f \in Fns : \E a \in Operands(f, Complexes(Doubles), Doubles) : Call(1, f, a)
    \/ Body(1)
    \/ Discard(1)

Spec == Init /\ [][Next]_vars

\* Every context calling concurrently, in any interleaving.
NextConc ==
    \E p \in Ctx :
        \/ /\ pc[p] = "idle"
           /\ \E f \in Fns : \E a \in Operands(f, FewComplexes, FewDoubles) : Call(p, f, a)
        \/ Body(p)
        \/ Discard(p)

SpecConc == Init /\ [][NextConc]_vars

-----------------------------------------------------------------------------
(* Vocabulary of the properties                                            *)

\* Context p has returned from a call of f; its operands are args[p].
Returned(p, f) == pc[p] = "done" /\ fn[p] = f

FiniteC(z) == IsFinite(z.re) /\ IsFinite(z.im)

\* z is the exact zero value: re = 0 and im = 0.
ExactZero(z) == FEq(z.re, Lit(0)) /\ FEq(z.im, Lit(0))

\* Numerical equality of two complex values, component for component.
SameNumber(z, w) == FEq(z.re, w.re) /\ FEq(z.im, w.im)

-----------------------------------------------------------------------------
\* C1: reciprocal applied to the exact zero value (re = 0 and im = 0) returns
\* the Infinity sentinel (+infinity, +infinity), and not the pair (NaN, NaN).
C1_ReciprocalOfZeroIsInfinity ==
    \A p \in Ctx :
        Returned(p, "reciprocate") /\ ExactZero(args[p][1]) =>
            /\ result[p] = COMP_INFINITY
            /\ ~(IsNaN(result[p].re) /\ IsNaN(result[p].im))

-----------------------------------------------------------------------------
\* C2: divide(z, w) takes the first Smith branch (u = w.im / w.re,
\* re = (z.re + z.im*u) / (w.re + w.im*u), im = (z.im - z.re*u) / (w.re + w.im*u))
\* exactly when |w.im| < |w.re|, and otherwise, the tie |w.im| = |w.re|
\* included, the second branch (u = w.re / w.im,
\* re = (z.im + z.re*u) / (w.im + w.re*u), im = (z.im*u - z.re) / (w.im + w.re*u)).
C2_DivideTakesSmithBranch ==
    \A p \in Ctx :
        Returned(p, "div") =>
            LET a == args[p][1].re
                b == args[p][1].im
                c == args[p][2].re
                d == args[p][2].im
                first == FLt(fabs(d), fabs(c))
                u == IF first THEN FDiv(d, c) ELSE FDiv(c, d)
            IN  /\ tmp[p].branch = (IF first THEN 1 ELSE 2)
                /\ tmp[p].u = u
                /\ (first =>
                     /\ result[p].re = FDiv(FAdd(a, FMul(b, u)), FAdd(c, FMul(d, u)))
                     /\ result[p].im = FDiv(FSub(b, FMul(a, u)), FAdd(c, FMul(d, u))))
                /\ (~first =>
                     /\ result[p].re = FDiv(FAdd(b, FMul(a, u)), FAdd(d, FMul(c, u)))
                     /\ result[p].im = FDiv(FSub(FMul(b, u), a), FAdd(d, FMul(c, u))))

\* A division by a finite nonzero w with |w.im| = |w.re| has returned, through
\* the second branch.
C2_TieReturned ==
    \E p \in Ctx :
        /\ Returned(p, "div")
        /\ FiniteC(args[p][2]) /\ ~ExactZero(args[p][2])
        /\ FEq(fabs(args[p][2].im), fabs(args[p][2].re))
        /\ tmp[p].branch = 2
        /\ FiniteC(result[p])

-----------------------------------------------------------------------------
\* No intermediate of the division of context p, nor its result, overflowed
\* or is invalid: the arithmetic of the call was exact.
ExactDiv(p) ==
    /\ IsFinite(tmp[p].u) /\ IsFinite(tmp[p].den)
    /\ IsFinite(tmp[p].nre) /\ IsFinite(tmp[p].nim)
    /\ FiniteC(result[p])

\* C3: for every finite z and every finite nonzero w, multiply(divide(z, w), w)
\* equals z when the arithmetic is exact: whichever branch divide takes, its
\* result is the true quotient z/w.
C3_DivideThenMultiply ==
    \A p \in Ctx :
        (/\ Returned(p, "div")
         /\ FiniteC(args[p][1]) /\ FiniteC(args[p][2]) /\ ~ExactZero(args[p][2])
         /\ ExactDiv(p)
         /\ FiniteC(comp_mul(result[p], args[p][2])))
        => SameNumber(comp_mul(result[p], args[p][2]), args[p][1])

\* An exact division with all four operand components nonzero has returned
\* through the first branch, and its product with w is finite.
C3_ExactQuotientReturned ==
    \E p \in Ctx :
        /\ Returned(p, "div")
        /\ \A x \in {args[p][1].re, args[p][1].im, args[p][2].re, args[p][2].im} :
               x.k = "fin"
        /\ tmp[p].branch = 1
        /\ ExactDiv(p)
        /\ FiniteC(comp_mul(result[p], args[p][2]))

-----------------------------------------------------------------------------
\* C4: divide(z, w) with w = (0, 0) has no guard: it takes the second branch,
\* computes u = 0/0 and returns what IEEE-754 arithmetic gives through that
\* branch, components that are infinities or NaNs; it is no sentinel picked
\* by the library.
C4_DivideByZeroUnguarded ==
    \A p \in Ctx :
        Returned(p, "div") /\ ExactZero(args[p][2]) =>
            LET a == args[p][1].re
                b == args[p][1].im
                c == args[p][2].re
                d == args[p][2].im
                u == FDiv(c, d)
            IN  /\ tmp[p].branch = 2
                /\ tmp[p].u = u /\ IsNaN(u)
                /\ result[p].re = FDiv(FAdd(b, FMul(a, u)), FAdd(d, FMul(c, u)))
                /\ result[p].im = FDiv(FSub(FMul(b, u), a), FAdd(d, FMul(c, u)))
                /\ (IsNaN(result[p].re) \/ IsInf(result[p].re))
                /\ (IsNaN(result[p].im) \/ IsInf(result[p].im))

\* A division of a finite nonzero z by the zero value has returned.
C4_DividedByZero ==
    \E p \in Ctx :
        /\ Returned(p, "div")
        /\ ExactZero(args[p][2])
        /\ FiniteC(args[p][1]) /\ ~ExactZero(args[p][1])
        /\ IsNaN(result[p].re) /\ IsNaN(result[p].im)

-----------------------------------------------------------------------------
(* Exact comparisons of finite doubles, computed on the integers so that   *)
(* they do not overflow themselves.                                        *)

Abs(i) == IF i < 0 THEN -i ELSE i

\* |a| + |b| is within the range.
AbsSumFits(a, b) == a.n * b.d + b.n * a.d <= MaxFinite * a.d * b.d

\* 2 * |c| is within the range.
TwiceFits(c) == 2 * c.n <= MaxFinite * c.d

\* |w.re| and |w.im| differ by the factor Ratio or more.
OrdersApart(w) ==
    \/ Ratio * w.re.n * w.im.d <= w.im.n * w.re.d
    \/ Ratio * w.im.n * w.re.d <= w.re.n * w.im.d

\* w.re*w.re + w.im*w.im is beyond the range.
SquaresOverflow(w) ==
    w.re.n * w.re.n * w.im.d * w.im.d + w.im.n * w.im.n * w.re.d * w.re.d
        > MaxFinite * w.re.d * w.re.d * w.im.d * w.im.d

\* Both components of the true quotient z/w, (ac + bd)/(cc + dd) and
\* (bc - ad)/(cc + dd), are within the range.
QuotientRepresentable(z, w) ==
    LET L == z.re.d * z.im.d * w.re.d * w.im.d
        A == SN(z.re) * (L \div z.re.d)
        B == SN(z.im) * (L \div z.im.d)
        C == SN(w.re) * (L \div w.re.d)
        D == SN(w.im) * (L \div w.im.d)
    IN  /\ Abs(A * C + B * D) <= MaxFinite * (C * C + D * D)
        /\ Abs(B * C - A * D) <= MaxFinite * (C * C + D * D)

\* The division of context p is by a finite nonzero w, of a finite z.
FiniteDivision(p) ==
    /\ Returned(p, "div")
    /\ FiniteC(args[p][1]) /\ FiniteC(args[p][2]) /\ ~ExactZero(args[p][2])

\* |u| <= 1, and the denominator is nonzero, of magnitude at least
\* max(|w.re|, |w.im|).
ScalingFacts(p) ==
    /\ ~IsNaN(tmp[p].u) /\ ~FLt(Lit(1), fabs(tmp[p].u))
    /\ ~IsNaN(tmp[p].den) /\ ~IsZero(tmp[p].den)
    /\ ~FLt(fabs(tmp[p].den), fabs(args[p][2].re))
    /\ ~FLt(fabs(tmp[p].den), fabs(args[p][2].im))

\* No intermediate of the division of context p overflowed.
NoIntermediateOverflow(p) ==
    /\ IsFinite(tmp[p].u) /\ IsFinite(tmp[p].den)
    /\ IsFinite(tmp[p].nre) /\ IsFinite(tmp[p].nim)

\* C5 as stated: for every finite nonzero w, |u| <= 1, the denominator is
\* nonzero with magnitude at least max(|w.re|, |w.im|), and divide does not
\* overflow in an intermediate when |w.re| and |w.im| differ by orders of
\* magnitude and the true quotient is representable.
C5_DivideNeverOverflows ==
    \A p \in Ctx :
        FiniteDivision(p) =>
            /\ ScalingFacts(p)
            /\ (OrdersApart(args[p][2]) /\ QuotientRepresentable(args[p][1], args[p][2]))
               => NoIntermediateOverflow(p)

\* C5 amended: for every finite nonzero w, |u| <= 1 and the denominator is
\* nonzero with magnitude at least max(|w.re|, |w.im|); divide does not
\* overflow in an intermediate, however large w.re*w.re + w.im*w.im is,
\* when |z.re| + |z.im| and 2*max(|w.re|, |w.im|) are within the range, and
\* then returns a finite value when the true quotient is representable.
C5_DivideOverflowsOnlyAtTheRange ==
    \A p \in Ctx :
        FiniteDivision(p) =>
            /\ ScalingFacts(p)
            /\ (/\ AbsSumFits(args[p][1].re, args[p][1].im)
                /\ TwiceFits(args[p][2].re)
                /\ TwiceFits(args[p][2].im))
               => /\ NoIntermediateOverflow(p)
                  /\ (QuotientRepresentable(args[p][1], args[p][2])
                         => FiniteC(result[p]))

\* A division by a w whose squares overflow, with both components of w
\* nonzero, has returned a finite value without overflow.
C5_ScaledWhereSquaresOverflow ==
    \E p \in Ctx :
        /\ FiniteDivision(p)
        /\ args[p][2].re.k = "fin" /\ args[p][2].im.k = "fin"
        /\ SquaresOverflow(args[p][2])
        /\ AbsSumFits(args[p][1].re, args[p][1].im)
        /\ TwiceFits(args[p][2].re) /\ TwiceFits(args[p][2].im)
        /\ NoIntermediateOverflow(p)
        /\ FiniteC(result[p]) /\ ~ExactZero(result[p])

-----------------------------------------------------------------------------
\* C6: for all finite z and w, add(z, w) equals add(w, z) and multiply(z, w)
\* equals multiply(w, z), component for component.
C6_AddAndMultiplyCommute ==
    \A p \in Ctx :
        /\ (Returned(p, "add") /\ FiniteC(args[p][1]) /\ FiniteC(args[p][2]))
               => result[p] = comp_add(args[p][2], args[p][1])
        /\ (Returned(p, "mul") /\ FiniteC(args[p][1]) /\ FiniteC(args[p][2]))
               => result[p] = comp_mul(args[p][2], args[p][1])

\* A product of two different finite values, with both components of the
\* product finite and nonzero, has returned.
C6_ProductReturned ==
    \E p \in Ctx :
        /\ Returned(p, "mul")
        /\ FiniteC(args[p][1]) /\ FiniteC(args[p][2])
        /\ args[p][1] # args[p][2]
        /\ result[p].re.k = "fin" /\ result[p].im.k = "fin"

-----------------------------------------------------------------------------
\* C7: conjugate(conjugate(z)) is z for every value z of the type (finite
\* values, signed zeros, infinities, NaN components), the two values being
\* the same component for component.
C7_ConjugateInvolution ==
    \A p \in Ctx :
        Returned(p, "conjugate") => comp_conjugate(result[p]) = args[p][1]

\* The conjugate of a z with a NaN real part and imaginary part -0 has
\* returned: its imaginary part is +0.
C7_ConjugateOfNaNReturned ==
    \E p \in Ctx :
        /\ Returned(p, "conjugate")
        /\ IsNaN(args[p][1].re) /\ args[p][1].im = Zero(1)
        /\ IsNaN(result[p].re) /\ result[p].im = Zero(0)

-----------------------------------------------------------------------------
\* The value function f returns on the operands a when it runs alone.
Apply(f, a) ==
    CASE f = "add" -> comp_add(a[1], a[2])
      [] f = "sub" -> comp_sub(a[1], a[2])
      [] f = "mul" -> comp_mul(a[1], a[2])
      [] f = "div" -> comp_div(a[1], a[2])
      [] f = "conjugate" -> comp_conjugate(a[1])
      [] f = "reciprocate" -> comp_reciprocate(a[1])
      [] f = "magnitude" -> comp_magnitude(a[1])
      [] f = "phase" -> comp_phase(a[1])
      [] f = "from_polar" -> comp_from_polar(a[1], a[2])

\* C8: under any interleaving of the calls of any number of contexts, every
\* call returns what the same call returns alone, and no step of any context
\* changes the operands of a call in progress.
C8_CallsDoNotInterfere ==
    /\ [](\A p \in Ctx : pc[p] = "done" => result[p] = Apply(fn[p], args[p]))
    /\ [][\A p \in Ctx : pc[p] = "called" => args'[p] = args[p] /\ fn'[p] = fn[p]]_vars

\* Two contexts have returned from calls of different functions, with
\* different results.
C8_TwoCallsReturned ==
    \E p \in Ctx, q \in Ctx :
        /\ p # q
        /\ pc[p] = "done" /\ pc[q] = "done"
        /\ fn[p] # fn[q]
        /\ result[p] # result[q]

-----------------------------------------------------------------------------
\* C9: for every z other than exact zero, reciprocal(z) returns re = z.re/u
\* and im = -z.im/u with u = z.re*z.re + z.im*z.im, so that in exact
\* arithmetic multiply(z, reciprocal(z)) = (1, 0) for every finite nonzero z.
C9_ReciprocalIsNaiveFormula ==
    \A p \in Ctx :
        Returned(p, "reciprocate") /\ ~ExactZero(args[p][1]) =>
            LET z == args[p][1]
                u == FAdd(FMul(z.re, z.re), FMul(z.im, z.im))
            IN  /\ tmp[p].u = u
                /\ result[p] = complex(FDiv(z.re, u), FDiv(FNeg(z.im), u))
                /\ (FiniteC(z) /\ IsFinite(u) /\ FiniteC(result[p])
                      /\ FiniteC(comp_mul(z, result[p])))
                   => SameNumber(comp_mul(z, result[p]), complex(Lit(1), Lit(0)))

\* The reciprocal of a finite z with both components nonzero has returned,
\* computed without overflow.
C9_ReciprocalReturned ==
    \E p \in Ctx :
        /\ Returned(p, "reciprocate")
        /\ args[p][1].re.k = "fin" /\ args[p][1].im.k = "fin"
        /\ IsFinite(tmp[p].u)
        /\ FiniteC(comp_mul(args[p][1], result[p]))

-----------------------------------------------------------------------------
\* reciprocal(z) and divide((1, 0), z) are the same number for the finite
\* nonzero z of context p's call, when neither overflows.
AgreeWithDivide(p) ==
    LET z == args[p][1]
        one == complex(Lit(1), Lit(0))
    IN  (/\ FiniteC(z) /\ ~ExactZero(z)
         /\ IsFinite(tmp[p].u) /\ FiniteC(result[p])
         /\ IsFinite(div_u(z)) /\ IsFinite(div_den(z))
         /\ IsFinite(div_nre(one, z)) /\ IsFinite(div_nim(one, z))
         /\ FiniteC(comp_div(one, z)))
        => SameNumber(result[p], comp_div(one, z))

\* C10: for every finite nonzero z, reciprocal(z) and divide((1, 0), z) return
\* the same value in exact arithmetic; the two differ on z = (0, 0), and only
\* there.
C10_ReciprocalVersusDivide ==
    \A p \in Ctx :
        Returned(p, "reciprocate") =>
            /\ AgreeWithDivide(p)
            /\ (ExactZero(args[p][1])
                   => result[p] # comp_div(complex(Lit(1), Lit(0)), args[p][1]))

\* The half of C10 about nonzero z alone.
ReciprocalAgreesWithDivideOffZero ==
    \A p \in Ctx : Returned(p, "reciprocate") => AgreeWithDivide(p)

====
